---- MODULE Spec2Model ----
(***************************************************************************)
(* Quaternion Julia set ray marcher: the fragment shader of src/main.js    *)
(* (qmul, DE, getNormal, rayMarch, palette, main) and the JavaScript frame *)
(* loop that feeds its uniforms (animate, the resize handler).             *)
(*                                                                         *)
(* A GLSL highp float is modelled as a binary floating-point number with a *)
(* 24 bit significand: the pair <<m, e>> stands for m * 2^e, with          *)
(* 2^23 <= |m| < 2^24, or <<0, 0>> for zero.  Results are rounded to the   *)
(* nearest representable number and flushed to zero below 2^-126.  NaN is  *)
(* the pair <<0, 1>>.  The built-ins sqrt, log, cos, sin and exp are       *)
(* computed by series on these numbers.                                    *)
(***************************************************************************)
EXTENDS Integers, Sequences, FiniteSets

\* ------------------------------------------------------------------ floats

\* Width of the significand of a highp float.
Mant == 24
\* Smallest exponent of a normalised significand (2^-126 = 2^23 * 2^-149).
MinExp == -149

\* The pairs <<m, e>>.
Float == Int \X Int

Zero == <<0, 0>>
NaN == <<0, 1>>
One == <<2^(Mant - 1), 1 - Mant>>
Two == <<2^(Mant - 1), 2 - Mant>>
Half == <<2^(Mant - 1), -Mant>>

IsNaN(x) == x = NaN

Sign(x) == IF x[1] > 0 THEN 1 ELSE IF x[1] < 0 THEN -1 ELSE 0

Abs(nn) == IF nn < 0 THEN -nn ELSE nn

BL8(nn, b) ==
    b + (IF nn < 16
           THEN (IF nn < 4 THEN (IF nn < 2 THEN nn ELSE 2)
                          ELSE (IF nn < 8 THEN 3 ELSE 4))
           ELSE (IF nn < 64 THEN (IF nn < 32 THEN 5 ELSE 6)
                           ELSE (IF nn < 128 THEN 7 ELSE 8)))

\* Number of bits of n, for 0 <= n < 2^31.
BitLen(nn) ==
    IF nn < 65536
      THEN (IF nn < 256 THEN BL8(nn, 0) ELSE BL8(nn \div 256, 8))
      ELSE (IF nn < 16777216 THEN BL8(nn \div 65536, 16)
                            ELSE BL8(nn \div 16777216, 24))

\* sign(m) * q * 2^e, flushed to zero below the smallest exponent.
Pack(m, q, e) == IF e < MinExp THEN Zero ELSE <<IF m < 0 THEN -q ELSE q, e>>

\* A significand rounded up to 2^Mant is renormalised.
Carry(m, q, e) ==
    IF q = 2^Mant THEN Pack(m, 2^(Mant - 1), e + 1) ELSE Pack(m, q, e)

\* a / 2^s rounded to nearest (s > 0), or a * 2^-s (s <= 0).
Shift(a, s) == IF s > 0 THEN (a + 2^(s - 1)) \div 2^s ELSE a * 2^(-s)

\* |m| = a has Mant + s bits.
Round(m, e, a, s) == Carry(m, Shift(a, s), e + s)

\* The float nearest to m * 2^e, for |m| < 2^31 - 64.
Norm(m, e) ==
    IF m = 0 THEN Zero ELSE Round(m, e, Abs(m), BitLen(Abs(m)) - Mant)

FromInt(nn) == Norm(nn, 0)

fNeg(x) == IF IsNaN(x) THEN NaN ELSE <<-x[1], x[2]>>

fAbs(x) == IF IsNaN(x) THEN NaN ELSE <<Abs(x[1]), x[2]>>

\* m * 2^-s truncated towards zero (s > 0), or m * 2^-s exactly (s <= 0).
AlignTo(m, s) ==
    IF s <= 0 THEN m * 2^(-s)
    ELSE IF m < 0 THEN -((-m) \div 2^s)
    ELSE m \div 2^s

\* x + y for e(x) - e(y) = diff >= 0, both non-zero: y is aligned to x with
\* 6 guard bits.
AddAligned(x, y, diff) ==
    IF diff > Mant + 1 THEN x
    ELSE Norm((x[1] * 64) + AlignTo(y[1], diff - 6), x[2] - 6)

fAdd(x, y) ==
    IF x = NaN \/ y = NaN THEN NaN
    ELSE IF x[1] = 0 THEN y
    ELSE IF y[1] = 0 THEN x
    ELSE IF x[2] >= y[2] THEN AddAligned(x, y, x[2] - y[2])
    ELSE AddAligned(y, x, y[2] - x[2])

fSub(x, y) == IF y = NaN THEN NaN ELSE fAdd(x, <<-y[1], y[2]>>)

\* The top 30 bits of the 48 bit product a * b, from 12 bit halves.
Mul24(a1, a0, b1, b0) ==
    ((a1 * b1) * 64)
      + ((((a1 * b0) + (a0 * b1)) + ((a0 * b0) \div 4096)) \div 64)

\* x * y
fMul(x, y) ==
    IF x = NaN \/ y = NaN THEN NaN
    ELSE IF x[1] = 0 \/ y[1] = 0 THEN Zero
    ELSE Norm((Sign(x) * Sign(y))
                * Mul24(Abs(x[1]) \div 4096, Abs(x[1]) % 4096,
                        Abs(y[1]) \div 4096, Abs(y[1]) % 4096),
              x[2] + y[2] + 18)

\* A round of long division by b: 6 more bits of the quotient qr[1], and the
\* remainder qr[2].
DivRound(qr, b) == <<(qr[1] * 64) + ((qr[2] * 64) \div b), (qr[2] * 64) % b>>

\* The last round: 2 more bits.
DivLast(qr, b) == (qr[1] * 4) + ((qr[2] * 4) \div b)

\* a * 2^26 \div b, for 0 <= a < 2b: four rounds of 6 bits and one of 2.
Quotient(a, b) ==
    DivLast(DivRound(DivRound(DivRound(DivRound(<<a \div b, a % b>>, b), b),
                              b), b), b)

\* x / y; x / 0 is NaN.
fDiv(x, y) ==
    IF x = NaN \/ y = NaN \/ y[1] = 0 THEN NaN
    ELSE IF x[1] = 0 THEN Zero
    ELSE Norm((Sign(x) * Sign(y)) * Quotient(Abs(x[1]), Abs(y[1])),
              x[2] - y[2] - 26)

\* Order of two numbers of the same sign s # 0.
LtSameSign(x, y, s) ==
    IF s > 0 THEN x[2] < y[2] \/ (x[2] = y[2] /\ x[1] < y[1])
    ELSE x[2] > y[2] \/ (x[2] = y[2] /\ x[1] < y[1])

\* x < y; false when either is NaN.
fLt(x, y) ==
    /\ ~IsNaN(x)
    /\ ~IsNaN(y)
    /\ IF Sign(x) # Sign(y) THEN Sign(x) < Sign(y)
       ELSE IF Sign(x) = 0 THEN FALSE
       ELSE LtSameSign(x, y, Sign(x))

fGt(x, y) == fLt(y, x)

\* GLSL min(x, y): y if y < x, otherwise x.
fMin(x, y) == IF fLt(y, x) THEN y ELSE x

\* GLSL max(x, y): y if x < y, otherwise x.
fMax(x, y) == IF fLt(x, y) THEN y ELSE x

\* A decimal literal n/d.
Dec(nn, dd) == fDiv(FromInt(nn), FromInt(dd))

\* Integer square root by Newton's iteration from a guess x >= sqrt(n).
RECURSIVE ISqrtFrom(_, _)
ISqrtFrom(nn, x) ==
    IF (x + (nn \div x)) \div 2 >= x THEN x
    ELSE ISqrtFrom(nn, (x + (nn \div x)) \div 2)

\* One Newton step for sqrt(x) from the guess g.
Newton(x, g) == fMul(Half, fAdd(g, fDiv(x, g)))

\* sqrt(x): a 15 bit integer root of the significand (made even in its
\* exponent), then one Newton step.  The square root of a negative number is
\* undefined in GLSL; it is NaN here.
fSqrt(x) ==
    IF IsNaN(x) \/ x[1] < 0 THEN NaN
    ELSE IF x[1] = 0 THEN Zero
    ELSE Newton(x, Norm(ISqrtFrom((x[1] * (1 + (x[2] % 2))) * 16, 32768),
                        ((x[2] - (x[2] % 2)) - 4) \div 2))

Ln2 == Dec(6931472, 10000000)

\* 1, 1/3, 1/5, ..., 1/13
AtanhCoef ==
    <<One, Dec(1, 3), Dec(1, 5), Dec(1, 7), Dec(1, 9), Dec(1, 11), Dec(1, 13)>>

\* 1/(2n - 1) + u * inner
AtanhTerm(u, j, inner) == fAdd(AtanhCoef[j], fMul(u, inner))

\* The terms n, n - 1, ..., 1 around inner, innermost first.
RECURSIVE AtanhFrom(_, _, _)
AtanhFrom(u, j, inner) ==
    IF u = NaN \/ inner = NaN \/ j = 1 THEN AtanhTerm(u, j, inner)
    ELSE AtanhFrom(u, j - 1, AtanhTerm(u, j, inner))

\* 1 + u/3 + u^2/5 + u^3/7 + u^4/9 + u^5/11 + u^6/13, nested:
\* 1 + u * (1/3 + u * (1/5 + ... + u * (1/11 + u * 1/13)))
AtanhSeries(u) == AtanhFrom(u, 6, AtanhCoef[7])

\* k * log(2) + 2 * atanh(y)
LogSeries(y, kk) ==
    fAdd(fMul(FromInt(kk), Ln2), fMul(fMul(Two, y), AtanhSeries(fMul(y, y))))

\* log(f * 2^k) for f in [1/sqrt(2), sqrt(2)):
\* log(f) = 2 * atanh((f - 1) / (f + 1)).
LogOf(f, kk) == LogSeries(fDiv(fSub(f, One), fAdd(f, One)), kk)

\* log(x), the natural logarithm, for x > 0.
\* GLSL leaves log(x) undefined for x <= 0; callers decide that case.
fLog(x) ==
    IF IsNaN(x) \/ x[1] <= 0 THEN NaN
    ELSE IF x[1] > 11863283 THEN LogOf(<<x[1], -Mant>>, x[2] + Mant)
    ELSE LogOf(<<x[1], 1 - Mant>>, x[2] + Mant - 1)

\* The integer floor(x), for |x| < 2^30.
Floor(x) ==
    IF x[2] >= 0 THEN x[1] * 2^x[2]
    ELSE IF x[2] < -30 THEN (IF x[1] < 0 THEN -1 ELSE 0)
    ELSE x[1] \div 2^(-x[2])

TwoPi == Dec(6283185, 1000000)

Reduce(x, kk) == IF kk = 0 THEN x ELSE fSub(x, fMul(FromInt(kk), TwoPi))

\* x reduced to [-pi, pi] by a multiple of 2 pi.
ReduceAngle(x) == Reduce(x, Floor(fAdd(fDiv(x, TwoPi), Half)))

\* The Taylor series of sin(x)/x (first = 2) and of cos(x) (first = 1) in
\* u = x^2, nested: 1 - u/(n(n+1)) * (1 - u/((n+2)(n+3)) * ( ... )).
\* The terms are evaluated innermost first, from n = 20 (sin) or n = 19 (cos)
\* down.
TrigCoef ==
    << Dec(1, 2), Dec(1, 6), Dec(1, 12), Dec(1, 20), Dec(1, 30), Dec(1, 42),
       Dec(1, 56), Dec(1, 72), Dec(1, 90), Dec(1, 110), Dec(1, 132),
       Dec(1, 156), Dec(1, 182), Dec(1, 210), Dec(1, 240), Dec(1, 272),
       Dec(1, 306), Dec(1, 342), Dec(1, 380), Dec(1, 420) >>

\* 1 - u/(n(n+1)) * inner
TrigTerm(u, j, inner) == fSub(One, fMul(fMul(u, TrigCoef[j]), inner))

RECURSIVE TrigSeries(_, _, _)
TrigSeries(u, j, inner) ==
    IF u = NaN \/ inner = NaN \/ j <= 2 THEN TrigTerm(u, j, inner)
    ELSE TrigSeries(u, j - 2, TrigTerm(u, j, inner))

SinReduced(a) == fMul(a, TrigSeries(fMul(a, a), 20, One))

fSin(x) == IF IsNaN(x) THEN NaN ELSE SinReduced(ReduceAngle(x))

CosReduced(a) == TrigSeries(fMul(a, a), 19, One)

fCos(x) == IF IsNaN(x) THEN NaN ELSE CosReduced(ReduceAngle(x))

\* 1 + r/n * (1 + r/(n+1) * ( ... )), the Taylor series of exp(r), evaluated
\* innermost first, from n = 10 down.
ExpCoef ==
    << One, Half, Dec(1, 3), Dec(1, 4), Dec(1, 5), Dec(1, 6), Dec(1, 7),
       Dec(1, 8), Dec(1, 9), Dec(1, 10) >>

\* 1 + r/n * inner
ExpTerm(v, j, inner) == fAdd(One, fMul(fMul(v, ExpCoef[j]), inner))

RECURSIVE ExpSeries(_, _, _)
ExpSeries(v, j, inner) ==
    IF v = NaN \/ inner = NaN \/ j = 1 THEN ExpTerm(v, j, inner)
    ELSE ExpSeries(v, j - 1, ExpTerm(v, j, inner))

ExpScale(s, kk) == Norm(s[1], s[2] + kk)

ExpReduced(x, kk) ==
    ExpScale(ExpSeries(fSub(x, fMul(FromInt(kk), Ln2)), 10, One), kk)

\* exp(x) = 2^k * exp(x - k log 2).
fExp(x) ==
    IF IsNaN(x) THEN NaN
    ELSE ExpReduced(x, Floor(fAdd(fDiv(x, Ln2), Half)))

\* pow(x, y) for x >= 0 and y > 0: exp(y * log(x)), and 0 for x = 0.
\* GLSL leaves pow(x, y) undefined for x < 0; it is NaN here.
fPow(x, y) ==
    IF IsNaN(x) \/ IsNaN(y) \/ x[1] < 0 THEN NaN
    ELSE IF x[1] = 0 THEN Zero
    ELSE fExp(fMul(y, fLog(x)))

\* ----------------------------------------------------------------- vectors

Vec3Of(v) == <<FromInt(v[1]), FromInt(v[2]), FromInt(v[3])>>

vAdd(a, b) == <<fAdd(a[1], b[1]), fAdd(a[2], b[2]), fAdd(a[3], b[3])>>

vSub(a, b) == <<fSub(a[1], b[1]), fSub(a[2], b[2]), fSub(a[3], b[3])>>

vScale(a, s) == <<fMul(a[1], s), fMul(a[2], s), fMul(a[3], s)>>

vNeg(a) == <<fNeg(a[1]), fNeg(a[2]), fNeg(a[3])>>

\* A vector with a NaN component.
HasNaN(v) == NaN \in {v[1], v[2], v[3]}

\* dot(a, b); NaN if a component of a or b is.
dot3(a, b) ==
    IF HasNaN(a) \/ HasNaN(b) THEN NaN
    ELSE fAdd(fAdd(fMul(a[1], b[1]), fMul(a[2], b[2])), fMul(a[3], b[3]))

length3(v) == fSqrt(dot3(v, v))

length4(zz) ==
    fSqrt(fAdd(fAdd(fAdd(fMul(zz[1], zz[1]), fMul(zz[2], zz[2])),
                    fMul(zz[3], zz[3])), fMul(zz[4], zz[4])))

Zero3 == <<Zero, Zero, Zero>>
NaN3 == <<NaN, NaN, NaN>>

\* normalize(v) = v / length(v).  GLSL leaves normalize of the zero vector
\* undefined: builds produce NaN (0 * inversesqrt(0)) or the zero vector.
Normalized(v, l) ==
    IF l = Zero THEN {NaN3, Zero3}
    ELSE {<<fDiv(v[1], l), fDiv(v[2], l), fDiv(v[3], l)>>}

normalize(v) == Normalized(v, length3(v))

\* normalize of a vector the shader builds from a non-zero constant.
unit(v) == CHOOSE u \in normalize(v) : TRUE

\* reflect(I, N) = I - 2 * dot(N, I) * N
reflect(I, N) == vSub(I, vScale(N, fMul(Two, dot3(N, I))))

\* ------------------------------------------------------- the fragment shader

MAX_STEPS == 512
MIN_DIST == Dec(1, 10000)
MAX_DIST == FromInt(40)
ITERATIONS == 20
STEP_SCALE == Dec(45, 100)

\* qmul with its operands exchanged: the product b * a.
qmulReversed(a, b) ==
    << fSub(fSub(fSub(fMul(b[1], a[1]), fMul(b[2], a[2])), fMul(b[3], a[3])),
            fMul(b[4], a[4])),
       fSub(fAdd(fAdd(fMul(b[1], a[2]), fMul(b[2], a[1])), fMul(b[3], a[4])),
            fMul(b[4], a[3])),
       fAdd(fAdd(fSub(fMul(b[1], a[3]), fMul(b[2], a[4])), fMul(b[3], a[1])),
            fMul(b[4], a[2])),
       fAdd(fSub(fAdd(fMul(b[1], a[4]), fMul(b[2], a[3])), fMul(b[3], a[2])),
            fMul(b[4], a[1])) >>

qmul(a, b) ==
    << fSub(fSub(fSub(fMul(a[1], b[1]), fMul(a[2], b[2])), fMul(a[3], b[3])),
            fMul(a[4], b[4])),
       fSub(fAdd(fAdd(fMul(a[1], b[2]), fMul(a[2], b[1])), fMul(a[3], b[4])),
            fMul(a[4], b[3])),
       fAdd(fAdd(fSub(fMul(a[1], b[3]), fMul(a[2], b[4])), fMul(a[3], b[1])),
            fMul(a[4], b[2])),
       fAdd(fSub(fAdd(fMul(a[1], b[4]), fMul(a[2], b[3])), fMul(a[3], b[2])),
            fMul(a[4], b[1])) >>

qAdd(a, b) ==
    <<fAdd(a[1], b[1]), fAdd(a[2], b[2]), fAdd(a[3], b[3]), fAdd(a[4], b[4])>>

\* DE, lines 64-67 and 68-69: vec2(x * co - y * si, x * si + y * co)
Rot2(x, y, co, si) ==
    <<fSub(fMul(x, co), fMul(y, si)), fAdd(fMul(x, si), fMul(y, co))>>

\* DE, lines 63-69: c.xy is turned by t and c.zw by t * 0.7.
RotateBy(qc, tt) ==
    Rot2(qc[1], qc[2], fCos(tt), fSin(tt))
      \o Rot2(qc[3], qc[4], fCos(fMul(tt, Dec(7, 10))),
                            fSin(fMul(tt, Dec(7, 10))))

\* The constant c left as the uniform, not rotated.
Unrotated(qc, tm) == qc

\* DE, lines 62-69: the constant c, rotated by the uniform time.
RotatedC(qc, tm) == RotateBy(qc, fMul(tm, Dec(2, 10)))

\* DE, line 76: the escape test.
Escaped(rr) == fGt(rr, FromInt(4))

\* Line 77 without its "+ 1.0".
NextDrPlain(rr, dd) == fMul(fMul(Two, rr), dd)

\* DE, line 77.
NextDr(rr, dd) == fAdd(fMul(fMul(Two, rr), dd), One)

\* DE, line 78.
NextZ(zz, cc) == qAdd(qmul(zz, zz), cc)

\* DE, line 81: 0.5 * log(r) * r / dr.  log(0) is undefined in GLSL: a build
\* gives -infinity, and then -infinity * 0 = NaN, or a finite value, and then
\* the product with r = 0 is 0.
DEValue(rr, dd) ==
    IF rr = Zero THEN {NaN, Zero}
    ELSE {fDiv(fMul(fMul(Half, fLog(rr)), rr), dd)}

\* getNormal, lines 85-90: the six sample points, in the order of the calls.
Offset(pos, j, e) ==
    CASE j = 1 -> <<fAdd(pos[1], e), pos[2], pos[3]>>
      [] j = 2 -> <<fSub(pos[1], e), pos[2], pos[3]>>
      [] j = 3 -> <<pos[1], fAdd(pos[2], e), pos[3]>>
      [] j = 4 -> <<pos[1], fSub(pos[2], e), pos[3]>>
      [] j = 5 -> <<pos[1], pos[2], fAdd(pos[3], e)>>
      [] j = 6 -> <<pos[1], pos[2], fSub(pos[3], e)>>

NormalSample(pos, j) == Offset(pos, j, MIN_DIST)

\* getNormal, lines 86-90: the central differences of the six samples.
Gradient(s) == <<fSub(s[1], s[2]), fSub(s[3], s[4]), fSub(s[5], s[6])>>

\* rayMarch, line 99.
MarchPoint(ro, dir, tt) == vAdd(ro, vScale(dir, tt))

\* rayMarch, line 100.
Damped(de) == fMul(de, STEP_SCALE)

\* Line 101 left out: minD keeps its value.
KeepMinD(m, dd) == m

\* rayMarch, line 101.
NextMinD(m, dd) == fMin(m, dd)

\* rayMarch, line 103: the direct hit test.
IsHit(dd) == fLt(dd, MIN_DIST)

\* rayMarch, line 104: the bail-out test.
PastMax(tt) == fGt(tt, MAX_DIST)

\* Lines 109-110 without the test of minD: t is returned.
FallbackCurrent(tt, m) == tt

\* rayMarch, lines 109-110: the value returned when the loop ends.
Fallback(tt, m) == IF fLt(m, Dec(1, 10)) THEN tt ELSE MAX_DIST

\* main, lines 122-123: the ray direction of a fragment.
RayDir(cam, wpos, nrm) ==
    unit(vAdd(unit(vSub(wpos, cam)), vScale(nrm, Dec(1, 100))))

\* palette, line 118: one component of a + b * cos(6.28318 * (c * t + d +
\* time * 0.1)).
Channel(a, b, cc, dd, x, tm) ==
    fAdd(a, fMul(b, fCos(fMul(Dec(628318, 100000),
                              fAdd(fAdd(fMul(cc, x), dd),
                                   fMul(tm, Dec(1, 10)))))))

\* palette, lines 113-119.
palette(x, tm) ==
    << Channel(Half, Half, One, Dec(263, 1000), x, tm),
       Channel(Half, Half, One, Dec(416, 1000), x, tm),
       Channel(Half, Half, One, Dec(557, 1000), x, tm) >>

\* main, line 132
Light1(tm) == unit(<<fSin(tm), One, fCos(tm)>>)

\* main, line 133
Light2 == unit(<<Dec(-707, 1000), Dec(707, 1000), Zero>>)

\* main, lines 135-136
Diffuse(nrm, light) == fMax(dot3(nrm, light), Zero)

\* main, lines 138-139
Specular(nrm, light, dir) ==
    fPow(fMax(dot3(reflect(vNeg(light), nrm), vNeg(dir)), Zero), FromInt(32))

\* main, line 141
BaseColor(pos, nrm, tm) ==
    palette(fAdd(fMul(length3(pos), Half),
                 fMul(dot3(nrm, <<One, One, One>>), Half)), tm)

\* main, lines 143-147
Lit(base, diff1, diff2, spec1, spec2) ==
    vAdd(vScale(base, fAdd(fAdd(Dec(2, 10), fMul(Dec(4, 10), diff1)),
                           fMul(Dec(2, 10), diff2))),
         vScale(vScale(<<Dec(8, 10), Dec(8, 10), Dec(8, 10)>>,
                       fAdd(spec1, spec2)), Half))

\* main, line 149
Glow(pos) == fExp(fMul(fNeg(length3(pos)), Dec(15, 10)))

\* main, line 150: col += baseColor * glow * 0.3
AddGlow(col, base, glow) == vAdd(col, vScale(vScale(base, glow), Dec(3, 10)))

\* ------------------------------------------------------------ the program

\* Frames are requested MaxTick times after the first; a timestamp is a
\* multiple of 2.5 s, in milliseconds.
MaxTick == 1
TimeStamps == {2500 * j : j \in 0..MaxTick}

\* window.innerWidth, window.innerHeight
Windows == {<<800, 600>>, <<1024, 768>>}

\* Positions OrbitControls leaves the camera at: 2 to 20 away from its
\* target (lines 14-15), which panning moves off the origin.
Cameras == {<<-3, 0, 4>>, <<2, -1, -1>>, <<0, 0, 0>>}

\* The fragments of the bounding sphere (radius 3) followed in a frame:
\* interpolated world positions; the sphere's normal is position / 3.
Fragments == << <<-3, 0, 0>>, <<-2, -2, 1>> >>

\* line 21
QC0 == <<Dec(-2, 10), Dec(4, 10), Dec(-4, 10), Dec(-4, 10)>>

VARIABLES
    pc,              \* control point
    now,             \* timestamp of the last animation frame (ms), -1 before
    window,          \* window.innerWidth, window.innerHeight
    time,            \* uniform float time
    resolution,      \* uniform vec2 resolution
    quaternionC,     \* uniform vec4 quaternionC
    cameraPosition,  \* uniform vec3 cameraPosition (camera.position)
    frag,            \* fragments of this frame started so far
    vWorldPosition,  \* varying
    vNormal,         \* varying
    rd,              \* main: ray direction
    tMain,           \* main: t, the value rayMarch returned
    p,               \* main: the hit point
    n,               \* main: the normal getNormal returned
    gl_FragColor,    \* the fragment's output, <<r, g, b, a>>
    t, d, minD, i,   \* rayMarch locals
    z, c, dr, r, k,  \* DE locals (k is its loop counter)
    ret,             \* DE: where the call returns to
    deResult,        \* DE: the value returned
    samples,         \* getNormal: the DE values sampled so far
    qa, qb, qab,     \* a call qmul(qa, qb) on its own, and its result
    seen,            \* history: the damped estimates of this march
    exit,            \* history: how this march left its loop
    deCalls,         \* history: DE calls made by this march
    writes,          \* history: assignments to gl_FragColor by this fragment
    cUsed,           \* history: the constants c used by this fragment's DE calls
    zEntry,          \* history: z at the start of the last DE iteration entered
    updates          \* history: updates of dr and z made by this DE call

jsVars == <<now, window, time, resolution, quaternionC, cameraPosition>>
fragVars == <<frag, vWorldPosition, vNormal, rd>>
mainVars == <<tMain, p, n, gl_FragColor, writes>>
marchVars == <<t, d, minD, i, seen, exit, deCalls>>
deVars == <<z, c, dr, r, k, ret, deResult, zEntry, updates>>
qVars == <<qa, qb, qab>>
vars == <<pc, jsVars, fragVars, mainVars, marchVars, deVars, samples, cUsed,
          qVars>>

Zero4 == <<Zero, Zero, Zero, Zero>>

\* No fragment in flight.
FragIdle ==
    /\ frag = 0
    /\ vWorldPosition = Zero3
    /\ vNormal = Zero3
    /\ rd = Zero3
    /\ tMain = Zero
    /\ p = Zero3
    /\ n = Zero3
    /\ gl_FragColor = Zero4
    /\ writes = 0

MarchIdle ==
    /\ t = Zero /\ d = Zero /\ minD = Zero /\ i = 0
    /\ seen = {} /\ exit = "none" /\ deCalls = 0

DEIdle ==
    /\ z = Zero4 /\ c = Zero4 /\ dr = Zero /\ r = Zero /\ k = 0
    /\ ret = "halt" /\ deResult = Zero /\ zEntry = Zero4 /\ updates = 0
    /\ cUsed = {}

QIdle == qa = Zero4 /\ qb = Zero4 /\ qab = Zero4

\* The page after the module body has run up to line 184: the uniforms of
\* lines 19-21, the camera of line 167, no frame requested yet.
Init ==
    /\ pc = "js"
    /\ now = -1
    /\ window \in Windows
    /\ time = Zero
    /\ resolution = <<0, 0>>
    /\ quaternionC = QC0
    /\ cameraPosition = Vec3Of(<<1, 1, 1>>)
    /\ samples = <<>>
    /\ FragIdle /\ MarchIdle /\ DEIdle /\ QIdle

\* animate, line 173: time * 0.001
Seconds(ts) == fMul(FromInt(ts), Dec(1, 1000))

\* animate, lines 170-176: the frame callback; line 185 calls it with 0.
\* controls.update() leaves the camera at one of Cameras; renderer.render
\* starts the frame's fragments.
animate(ts, cam) ==
    /\ pc = "js"
    /\ IF now = -1 THEN ts = 0 ELSE ts > now
    /\ now' = ts
    /\ cameraPosition' = Vec3Of(cam)
    /\ time' = Seconds(ts)
    /\ resolution' = window
    /\ frag' = 0
    /\ pc' = "raster"
    /\ UNCHANGED <<window, quaternionC, vWorldPosition, vNormal, rd, mainVars,
                   marchVars, deVars, samples, cUsed, qVars>>

\* the resize handler, lines 178-183
resize(w) ==
    /\ pc = "js"
    /\ window' = w
    /\ resolution' = w
    /\ UNCHANGED <<pc, now, time, quaternionC, cameraPosition, fragVars,
                   mainVars, marchVars, deVars, samples, cUsed, qVars>>

\* A call DE(pos), lines 60-72: z, c, dr and r are set, the loop is next.
CallDE(pos, from) ==
    /\ z' = <<pos[1], pos[2], pos[3], Zero>>
    /\ c' = RotatedC(quaternionC, time)
    /\ dr' = One
    /\ r' = Zero
    /\ k' = 0
    /\ ret' = from
    /\ updates' = 0
    /\ cUsed' = cUsed \cup {c'}
    /\ pc' = "DE"
    /\ UNCHANGED <<deResult, zEntry>>

SphereNormal(v) == <<Dec(v[1], 3), Dec(v[2], 3), Dec(v[3], 3)>>

\* main, lines 121-125, and rayMarch, lines 94-96: the next fragment of the
\* frame starts, its ray is set up and the march begins.  The locals of this
\* invocation of main, and of the functions it calls, are new.
FragStart ==
    /\ pc = "raster"
    /\ frag < Len(Fragments)
    /\ frag' = frag + 1
    /\ vWorldPosition' = Vec3Of(Fragments[frag'])
    /\ vNormal' = SphereNormal(Fragments[frag'])
    /\ rd' = RayDir(cameraPosition, vWorldPosition', vNormal')
    /\ t' = Zero
    /\ minD' = MAX_DIST
    /\ i' = 0
    /\ seen' = {}
    /\ exit' = "none"
    /\ deCalls' = 0
    /\ writes' = 0
    /\ cUsed' = {}
    /\ samples' = <<>>
    /\ tMain' = Zero /\ p' = Zero3 /\ n' = Zero3 /\ gl_FragColor' = Zero4
    /\ d' = Zero
    /\ z' = Zero4 /\ c' = Zero4 /\ dr' = Zero /\ r' = Zero /\ k' = 0
    /\ ret' = "halt" /\ deResult' = Zero /\ zEntry' = Zero4 /\ updates' = 0
    /\ pc' = "march"
    /\ UNCHANGED <<jsVars, qVars>>

\* renderer.render returns: every fragment of the frame has been shaded.
FrameEnd ==
    /\ pc = "raster"
    /\ frag = Len(Fragments)
    /\ pc' = "js"
    /\ UNCHANGED <<jsVars, fragVars, mainVars, marchVars, deVars, samples,
                   cUsed, qVars>>

\* rayMarch, lines 98-100: the loop goes on, DE is called at ro + rd * t.
MarchLoop ==
    /\ pc = "march"
    /\ i < MAX_STEPS
    /\ CallDE(MarchPoint(cameraPosition, rd, t), "marchDE")
    /\ deCalls' = deCalls + 1
    /\ UNCHANGED <<jsVars, fragVars, mainVars, t, d, minD, i, seen, exit,
                   samples, qVars>>

\* rayMarch, line 98: the step budget is used up.
MarchExhaust ==
    /\ pc = "march"
    /\ i >= MAX_STEPS
    /\ exit' = "exhaust"
    /\ pc' = "marchEnd"
    /\ UNCHANGED <<jsVars, fragVars, mainVars, t, d, minD, i, seen, deCalls,
                   deVars, samples, cUsed, qVars>>

\* rayMarch, lines 100-101, after DE returned.
Estimate ==
    /\ d' = Damped(deResult)
    /\ minD' = NextMinD(minD, d')
    /\ seen' = seen \cup {d'}

\* rayMarch, line 103: a direct hit returns t.
MarchHit ==
    /\ pc = "marchDE"
    /\ Estimate
    /\ IsHit(d')
    /\ tMain' = t
    /\ exit' = "hit"
    /\ pc' = "main"
    /\ UNCHANGED <<jsVars, fragVars, p, n, gl_FragColor, writes, t, i, deCalls,
                   deVars, samples, cUsed, qVars>>

\* rayMarch, line 104: past the maximum distance the loop is left.
MarchBreak ==
    /\ pc = "marchDE"
    /\ Estimate
    /\ ~IsHit(d')
    /\ PastMax(t)
    /\ exit' = "break"
    /\ pc' = "marchEnd"
    /\ UNCHANGED <<jsVars, fragVars, mainVars, t, i, deCalls, deVars, samples,
                   cUsed, qVars>>

\* rayMarch, line 106: the ray advances by the damped estimate.
MarchAdvance ==
    /\ pc = "marchDE"
    /\ Estimate
    /\ ~IsHit(d')
    /\ ~PastMax(t)
    /\ t' = fAdd(t, d')
    /\ i' = i + 1
    /\ pc' = "march"
    /\ UNCHANGED exit
    /\ UNCHANGED <<jsVars, fragVars, mainVars, deCalls, deVars, samples, cUsed,
                   qVars>>

\* rayMarch, lines 109-110: the loop has ended without a direct hit.
MarchEnd ==
    /\ pc = "marchEnd"
    /\ tMain' = Fallback(t, minD)
    /\ pc' = "main"
    /\ UNCHANGED <<jsVars, fragVars, p, n, gl_FragColor, writes, marchVars,
                   deVars, samples, cUsed, qVars>>

\* DE, lines 74-78: an iteration that does not escape updates dr and z.
DEStep ==
    /\ pc = "DE"
    /\ k < ITERATIONS
    /\ r' = length4(z)
    /\ ~Escaped(r')
    /\ dr' = NextDr(r', dr)
    /\ z' = NextZ(z, c)
    /\ k' = k + 1
    /\ zEntry' = z
    /\ updates' = updates + 1
    /\ UNCHANGED <<pc, jsVars, fragVars, mainVars, marchVars, c, ret, deResult,
                   samples, cUsed, qVars>>

\* DE, lines 75-76: r > 4.0 leaves the loop before dr and z are updated.
DEEscape ==
    /\ pc = "DE"
    /\ k < ITERATIONS
    /\ r' = length4(z)
    /\ Escaped(r')
    /\ zEntry' = z
    /\ pc' = "DEret"
    /\ UNCHANGED <<jsVars, fragVars, mainVars, marchVars, z, c, dr, k, ret,
                   deResult, updates, samples, cUsed, qVars>>

\* DE, line 74: the loop ends after ITERATIONS iterations.
DEExit ==
    /\ pc = "DE"
    /\ k >= ITERATIONS
    /\ pc' = "DEret"
    /\ UNCHANGED <<jsVars, fragVars, mainVars, marchVars, deVars, samples,
                   cUsed, qVars>>

\* DE, line 81.
DEReturn ==
    /\ pc = "DEret"
    /\ \E v \in DEValue(r, dr) : deResult' = v
    /\ pc' = ret
    /\ UNCHANGED <<jsVars, fragVars, mainVars, marchVars, z, c, dr, r, k, ret,
                   zEntry, updates, samples, cUsed, qVars>>

\* A miss that leaves main without the assignment of line 153.
MainMissSilent ==
    /\ pc = "main"
    /\ ~fLt(tMain, MAX_DIST)
    /\ pc' = "raster"
    /\ UNCHANGED <<jsVars, fragVars, mainVars, marchVars, deVars, samples,
                   cUsed, qVars>>

\* main, lines 126-128 and 153: no hit, the fragment is black.
MainMiss ==
    /\ pc = "main"
    /\ ~fLt(tMain, MAX_DIST)
    /\ gl_FragColor' = <<Zero, Zero, Zero, One>>
    /\ writes' = writes + 1
    /\ pc' = "raster"
    /\ UNCHANGED <<jsVars, fragVars, tMain, p, n, marchVars, deVars, samples,
                   cUsed, qVars>>

\* main, lines 128-130, and getNormal, lines 85-87: a hit; the first of the
\* six DE calls of getNormal(p).
MainHit ==
    /\ pc = "main"
    /\ fLt(tMain, MAX_DIST)
    /\ p' = MarchPoint(cameraPosition, rd, tMain)
    /\ samples' = <<>>
    /\ CallDE(NormalSample(p', 1), "normal")
    /\ UNCHANGED <<jsVars, fragVars, tMain, n, gl_FragColor, writes, marchVars,
                   qVars>>

\* getNormal, lines 87-89: the next DE call.
NormalNext ==
    /\ pc = "normal"
    /\ Len(samples) < 5
    /\ samples' = Append(samples, deResult)
    /\ CallDE(NormalSample(p, Len(samples') + 1), "normal")
    /\ UNCHANGED <<jsVars, fragVars, mainVars, marchVars, qVars>>

\* getNormal, lines 86-90: the gradient is normalized and returned.
NormalReturn ==
    /\ pc = "normal"
    /\ Len(samples) = 5
    /\ samples' = Append(samples, deResult)
    /\ \E v \in normalize(Gradient(samples')) : n' = v
    /\ pc' = "shade"
    /\ UNCHANGED <<jsVars, fragVars, tMain, p, gl_FragColor, writes, marchVars,
                   deVars, cUsed, qVars>>

\* main, lines 132-153: the hit is shaded.  The bound names are the locals
\* of main, each with the one value its initialiser gives it.
MainShade ==
    /\ pc = "shade"
    /\ \E light1 \in {Light1(time)}, baseColor \in {BaseColor(p, n, time)} :
         \E diff1 \in {Diffuse(n, light1)}, diff2 \in {Diffuse(n, Light2)},
            spec1 \in {Specular(n, light1, rd)},
            spec2 \in {Specular(n, Light2, rd)}, glow \in {Glow(p)} :
           \E col \in {Lit(baseColor, diff1, diff2, spec1, spec2)} :
             gl_FragColor' = AddGlow(col, baseColor, glow) \o <<One>>
    /\ writes' = writes + 1
    /\ pc' = "raster"
    /\ UNCHANGED <<jsVars, fragVars, tMain, p, n, marchVars, deVars, samples,
                   cUsed, qVars>>

DENext == DEStep \/ DEEscape \/ DEExit \/ DEReturn

Next ==
    \/ \E ts \in TimeStamps, cam \in Cameras : animate(ts, cam)
    \/ \E w \in Windows : resize(w)
    \/ FragStart
    \/ FrameEnd
    \/ MarchLoop
    \/ MarchExhaust
    \/ MarchHit
    \/ MarchBreak
    \/ MarchAdvance
    \/ MarchEnd
    \/ DENext
    \/ MainMiss
    \/ MainHit
    \/ NormalNext
    \/ NormalReturn
    \/ MainShade

Spec == Init /\ [][Next]_vars

\* ---------------------------------------------------------- qmul on its own

\* Quaternions with integer components in -1 .. QMax.
QMax == 1
Quats ==
    {<<FromInt(q1), FromInt(q2), FromInt(q3), FromInt(q4)>> :
        q1 \in -1..QMax, q2 \in -1..QMax, q3 \in -1..QMax, q4 \in -1..QMax}

\* No frame has been requested.
PageIdle ==
    /\ now = -1
    /\ window = <<800, 600>>
    /\ time = Zero
    /\ resolution = <<0, 0>>
    /\ cameraPosition = Vec3Of(<<1, 1, 1>>)
    /\ samples = <<>>

InitQmul ==
    /\ pc = "qmul"
    /\ qa \in Quats
    /\ qb \in Quats
    /\ qab = Zero4
    /\ quaternionC = QC0
    /\ PageIdle /\ FragIdle /\ MarchIdle /\ DEIdle

\* A call qmul(qa, qb), lines 51-58.
ApplyQmul ==
    /\ pc = "qmul"
    /\ qab' = qmul(qa, qb)
    /\ pc' = "qdone"
    /\ UNCHANGED <<jsVars, fragVars, mainVars, marchVars, deVars, samples,
                   cUsed, qa, qb>>

SpecQmul == InitQmul /\ [][ApplyQmul]_vars

\* ------------------------------------------------------------ DE on its own

\* Points with integer coordinates in -PMax .. PMax.
PMax == 1
DEPoints ==
    {Vec3Of(<<p1, p2, p3>>) :
        p1 \in -PMax..PMax, p2 \in -PMax..PMax, p3 \in -PMax..PMax}

\* DE takes the point pos and reads the uniforms time and quaternionC: the
\* constant of line 21, or the zero constant.
InitDE ==
    /\ pc = "callDE"
    /\ p \in DEPoints
    /\ quaternionC \in {QC0, Zero4}
    /\ time \in {Seconds(ts) : ts \in TimeStamps}
    /\ now = -1
    /\ window = <<800, 600>>
    /\ resolution = <<0, 0>>
    /\ cameraPosition = Vec3Of(<<1, 1, 1>>)
    /\ samples = <<>>
    /\ frag = 0 /\ vWorldPosition = Zero3 /\ vNormal = Zero3 /\ rd = Zero3
    /\ tMain = Zero /\ n = Zero3 /\ gl_FragColor = Zero4 /\ writes = 0
    /\ MarchIdle /\ DEIdle /\ QIdle

\* A call DE(p), lines 60-72.
DECall ==
    /\ pc = "callDE"
    /\ CallDE(p, "done")
    /\ UNCHANGED <<jsVars, fragVars, mainVars, marchVars, samples, qVars>>

NextDE == DECall \/ DENext

SpecDE == InitDE /\ [][NextDE]_vars

\* ------------------------------------------------------------------ claims

\* The thresholds below are the decimal literals of the source.

\* C1: the value rayMarch returns is a hit distance strictly less than
\* MAX_DIST (40.0) or exactly MAX_DIST, never more, on each of its exits.
C1_ReturnAtMostMax ==
    pc = "main" => (fLt(tMain, FromInt(40)) \/ tMain = FromInt(40))

\* C2: a ray whose damped estimates all stay at or above 0.1 makes rayMarch
\* return exactly 40.0, however the loop ends.
C2_FarRayReturnsMax ==
    (pc = "main" /\ seen # {} /\ \A e \in seen : ~fLt(e, Dec(1, 10)))
        => (tMain = FromInt(40) /\ exit \in {"break", "exhaust"})

\* A march left by t > MAX_DIST whose estimates all stayed at or above 0.1.
C2_Witness ==
    /\ pc = "main"
    /\ exit = "break"
    /\ fGt(t, FromInt(40))
    /\ seen # {}
    /\ \A e \in seen : ~fLt(e, Dec(1, 10))
    /\ tMain = FromInt(40)

\* C3: a direct hit returns the current t, not advanced, at the first step
\* whose damped estimate is below 1e-4, and the estimate DE at the returned
\* point is less than 1e-3 in absolute value.
C3_DirectHit ==
    (pc = "main" /\ exit = "hit")
        => /\ tMain = t
           /\ fLt(d, Dec(1, 10000))
           /\ \A e \in seen \ {d} : ~fLt(e, Dec(1, 10000))
           /\ d = fMul(deResult, Dec(45, 100))
           /\ fLt(fAbs(deResult), Dec(1, 1000))

BasisIndex == << <<1, 2, 3, 4>>, <<2, 1, 4, 3>>, <<3, 4, 1, 2>>, <<4, 3, 2, 1>> >>
BasisSign ==
    << <<1, 1, 1, 1>>, <<1, -1, 1, -1>>, <<1, -1, -1, 1>>, <<1, 1, -1, -1>> >>

\* The unit v with (unit u) * (unit v) = +- (unit m).
Partner(u, m) == CHOOSE v \in 1..4 : BasisIndex[u][v] = m

\* Component m of the Hamilton product of the integer quaternions a and b.
HamiltonComponent(a, b, m) ==
    (BasisSign[1][Partner(1, m)] * (a[1] * b[Partner(1, m)]))
      + (BasisSign[2][Partner(2, m)] * (a[2] * b[Partner(2, m)]))
      + (BasisSign[3][Partner(3, m)] * (a[3] * b[Partner(3, m)]))
      + (BasisSign[4][Partner(4, m)] * (a[4] * b[Partner(4, m)]))

Hamilton(a, b) == [m \in 1..4 |-> FromInt(HamiltonComponent(a, b, m))]

IntQuat(q) == <<Floor(q[1]), Floor(q[2]), Floor(q[3]), Floor(q[4])>>

QuatOne == <<One, Zero, Zero, Zero>>
QuatI == <<Zero, One, Zero, Zero>>
QuatJ == <<Zero, Zero, One, Zero>>
QuatK == <<Zero, Zero, Zero, One>>

\* C5: qmul(a, b) is the Hamilton product of a and b, x being the scalar
\* part; qmul(q, (1,0,0,0)) = q; qmul((1,0,0,0), (0,1,0,0)) = (0,1,0,0); and
\* qmul does not commute: i * j = k and j * i = -k.
C5_QmulIsHamilton ==
    /\ pc = "qdone"
         => /\ qab = Hamilton(IntQuat(qa), IntQuat(qb))
            /\ (qb = QuatOne => qab = qa)
            /\ (qa = QuatOne /\ qb = QuatI => qab = QuatI)
            /\ (qa = QuatI /\ qb = QuatJ => qab = QuatK)
            /\ (qa = QuatJ /\ qb = QuatI => qab # QuatK)

\* qmul(i, j) has returned k, which qmul(j, i) does not.
C5_Witness ==
    /\ pc = "qdone"
    /\ qa = QuatI
    /\ qb = QuatJ
    /\ qab = QuatK
    /\ qab # qmul(qb, qa)

\* C6: when the six samples of getNormal give the zero gradient, the normal
\* returned is a fallback unit vector such as (0,1,0), not the result of
\* normalizing the zero vector.
C6_ZeroGradientFallback ==
    (pc = "shade" /\ Gradient(samples) = Zero3)
        => /\ ~IsNaN(n[1]) /\ ~IsNaN(n[2]) /\ ~IsNaN(n[3])
           /\ length3(n) = One

\* C7: at the return of DE the argument r of the logarithm is positive and
\* the divisor dr is not zero, and the value returned is a number, for every
\* point, time and constant, the origin with the zero constant included.
C7_DEFinite ==
    /\ pc = "DEret" => (fGt(r, Zero) /\ dr # Zero /\ ~IsNaN(dr))
    /\ pc = "done" => (~IsNaN(deResult) /\ fGt(r, Zero))

\* Steps a call of DE in progress takes at most before it has returned.
DEStepsLeft ==
    IF pc = "DE" THEN (20 - k) + 2 ELSE IF pc = "DEret" THEN 1 ELSE 0

\* Steps getNormal takes at most once it has s samples and DE has returned.
NormalStepsLeft(s) == 1 + ((5 - s) * 24) + 1

\* Steps rayMarch and main take at most after step j of the march.
MarchStepsLeft(j) == ((512 - j) * 25) + 2 + 150

\* Steps the fragment in flight takes at most before its colour is written.
StepsLeft ==
    CASE pc = "march" -> MarchStepsLeft(i)
      [] pc \in {"DE", "DEret"} /\ ret = "marchDE"
           -> DEStepsLeft + 1 + MarchStepsLeft(i + 1)
      [] pc = "marchDE" -> 1 + MarchStepsLeft(i + 1)
      [] pc = "marchEnd" -> 151
      [] pc = "main" -> 150
      [] pc \in {"DE", "DEret"} /\ ret = "normal"
           -> DEStepsLeft + NormalStepsLeft(Len(samples))
      [] pc = "normal" -> NormalStepsLeft(Len(samples))
      [] pc = "shade" -> 1
      [] OTHER -> 0

\* The fragment in flight is at a control point of the shader whose step can
\* be taken: the steps at march, marchDE, DE and main have complementary
\* guards.
Runnable ==
    \/ pc \in {"march", "marchDE", "marchEnd", "DE", "main", "shade"}
    \/ pc = "DEret" /\ DEValue(r, dr) # {} /\ ret \in {"marchDE", "normal"}
    \/ pc = "normal" /\ Len(samples) <= 5

\* C8: every fragment's invocation ends with one assignment of a colour of
\* alpha 1 to gl_FragColor and cannot fail on the way: a march calls DE at
\* most 512 times, a call of DE updates z at most 20 times, a fragment in
\* flight always has a next step, each step brings the assignment nearer,
\* and a hit, a near miss and a miss all reach it.
C8_PixelTerminates ==
    /\ [](/\ deCalls <= 512
          /\ updates <= 20
          /\ writes <= 1
          /\ StepsLeft >= 0
          /\ (pc \notin {"js", "raster"}) => (writes = 0 /\ Runnable)
          /\ (pc = "raster" /\ frag > 0)
                => (writes = 1 /\ gl_FragColor[4] = One))
    /\ [][(pc \notin {"js", "raster"}) => (StepsLeft' < StepsLeft)]_vars

\* A fragment whose march used all 512 steps has been given its colour.
C8_Witness ==
    /\ pc = "raster"
    /\ frag > 0
    /\ deCalls = 512
    /\ exit = "exhaust"
    /\ writes = 1
    /\ gl_FragColor[4] = One

\* C9: an iteration of DE sets r = |z| first and leaves the loop on r > 4.0
\* before dr and z are updated; otherwise dr = 2 r dr + 1 and then
\* z = qmul(z, z) + c.  At the return r is the norm of z at the start of the
\* last iteration entered, dr and z have been updated once per iteration
\* that did not escape, and dr >= 1 throughout.
C9_DELoop ==
    /\ pc \in {"DE", "DEret"}
         => (~fLt(dr, One) /\ ~IsNaN(dr) /\ updates = k /\ k <= 20)
    /\ (pc = "DE" /\ k = 0) => dr = One
    /\ (pc = "DE" /\ k > 0)
         => /\ ~fGt(r, FromInt(4))
            /\ r = length4(zEntry)
            /\ z = qAdd(qmul(zEntry, zEntry), c)
    /\ pc = "DEret"
         => /\ r = length4(zEntry)
            /\ IF fGt(r, FromInt(4)) THEN z = zEntry
               ELSE k = 20 /\ z = qAdd(qmul(zEntry, zEntry), c)

\* A call that ran its 20 iterations without escaping: r is not the norm of
\* the final z.
C9_Witness ==
    /\ pc = "DEret"
    /\ k = 20
    /\ ~fGt(r, FromInt(4))
    /\ z # zEntry
    /\ r = length4(zEntry)
    /\ r # length4(z)
    /\ fGt(dr, One)

\* (x, y) turned by the angle a.
Turn(x, y, a) ==
    <<fSub(fMul(x, fCos(a)), fMul(y, fSin(a))),
      fAdd(fMul(x, fSin(a)), fMul(y, fCos(a)))>>

\* qc with (x, y) turned by tm * 0.2 and (z, w) by tm * 0.2 * 0.7.
TurnedConstant(qc, tm) ==
    Turn(qc[1], qc[2], fMul(tm, Dec(2, 10)))
      \o Turn(qc[3], qc[4], fMul(fMul(tm, Dec(2, 10)), Dec(7, 10)))

\* C10: the uniform quaternionC stays (-0.2, 0.4, -0.4, -0.4) in every frame,
\* and all the DE calls of one fragment use one constant c: quaternionC with
\* (x, y) turned by time * 0.2 and (z, w) by time * 0.2 * 0.7.
C10_ConstantReadOnly ==
    /\ quaternionC = <<Dec(-2, 10), Dec(4, 10), Dec(-4, 10), Dec(-4, 10)>>
    /\ Cardinality(cUsed) <= 1
    /\ pc \in {"DE", "DEret"} => cUsed = {c}
    /\ (pc = "DE" /\ k = 0) => c = TurnedConstant(quaternionC, time)

\* The march and the six samples of getNormal of a fragment of a later frame
\* have used one constant, which is not quaternionC itself.
C10_Witness ==
    /\ pc = "shade"
    /\ time # Zero
    /\ deCalls > 1
    /\ Len(samples) = 6
    /\ Cardinality(cUsed) = 1
    /\ quaternionC \notin cUsed

====
